---- MODULE Spec2Model ----
(***************************************************************************)
(* Model of the resume-parsing and ranking engine of src/v2.py.            *)
(*                                                                         *)
(* Text is a sequence of one-character strings, so that the regular        *)
(* expressions of the source (word boundaries, optional characters,        *)
(* greedy digit runs, look-aheads) are modelled by what they do on         *)
(* characters.  Python values that may be None, a str, a list or an int    *)
(* are tagged records [t, v].  Dicts are functions from key strings to     *)
(* such values; dict objects live in `heap` and list objects in `lists`,   *)
(* so that copying, aliasing and in-place mutation are observable.         *)
(***************************************************************************)
EXTENDS Integers, Sequences, FiniteSets, TLC

VARIABLES
    heap,         \* dict objects: heap[a] is the dict at address a
    lists,        \* list objects: lists[l] is a sequence of heap addresses
    origin,       \* history: origin[a] is the input dict that a was copied from
    resume_data,  \* the profile dict handed to rank_jobs_by_resume
    jobs0,        \* history: the dicts of the input list as first handed over
    rets,         \* history: what each call of rank_jobs_by_resume returned
    doc,          \* the resume text, as the chunks it is made of
    exp,          \* what _extract_experience_years_traced returned for doc
    sen,          \* what _extract_seniority_traced returned for doc
    hits,         \* what _skill_match returned for doc
    edu,          \* what _extract_education returned for doc
    pc,           \* where find_jobs_for_resume stands
    log,          \* history: the calls find_jobs_for_resume made, in order
    out           \* what find_jobs_for_resume returned

vars == <<heap, lists, origin, resume_data, jobs0, rets, doc, exp,
          sen, hits, edu, pc, log, out>>

(***************************************************************************)
(* Bounds of the model.                                                    *)
(***************************************************************************)
MaxJobs == 3
MaxCalls == 2
MaxChunks == 4
MaxPhrases == 3
MaxTokens == 3
MaxPerSource == 1
MaxLines == 6

(***************************************************************************)
(* Python values.                                                          *)
(***************************************************************************)
PyNone == [t |-> "none", v |-> 0]
PyStr(s) == [t |-> "str", v |-> s]
PyList(l) == [t |-> "list", v |-> l]
PyInt(n) == [t |-> "int", v |-> n]

\* dict.get(key) and dict.get(key, default)
DictGet(d, key) == IF key \in DOMAIN d THEN d[key] ELSE PyNone
DictGetDefault(d, key, default) == IF key \in DOMAIN d THEN d[key] ELSE default

\* d[key] = value on a dict
DictSet(d, key, value) ==
    [k \in (DOMAIN d) \cup {key} |-> IF k = key THEN value ELSE d[k]]

\* Python truthiness of the values the model holds
Truthy(x) ==
    CASE x.t = "none" -> FALSE
      [] x.t = "str"  -> x.v # <<>>
      [] x.t = "list" -> x.v # <<>>
      [] x.t = "int"  -> x.v # 0
      [] OTHER        -> TRUE

\* (x or "") for a title or description
OrEmptyStr(x) == IF Truthy(x) THEN x.v ELSE <<>>

(***************************************************************************)
(* Characters and strings.                                                 *)
(***************************************************************************)
Lower(c) ==
    CASE c = "A" -> "a" [] c = "B" -> "b" [] c = "C" -> "c" [] c = "D" -> "d"
      [] c = "E" -> "e" [] c = "F" -> "f" [] c = "G" -> "g" [] c = "H" -> "h"
      [] c = "I" -> "i" [] c = "J" -> "j" [] c = "K" -> "k" [] c = "L" -> "l"
      [] c = "M" -> "m" [] c = "N" -> "n" [] c = "O" -> "o" [] c = "P" -> "p"
      [] c = "Q" -> "q" [] c = "R" -> "r" [] c = "S" -> "s" [] c = "T" -> "t"
      [] c = "U" -> "u" [] c = "V" -> "v" [] c = "W" -> "w" [] c = "X" -> "x"
      [] c = "Y" -> "y" [] c = "Z" -> "z" [] OTHER -> c

\* str.lower()
LowerStr(s) == [i \in 1..Len(s) |-> Lower(s[i])]

Digits == {"0", "1", "2", "3", "4", "5", "6", "7", "8", "9"}

\* the characters \w matches
WordChars ==
    Digits \cup {"_"} \cup
    {"a", "b", "c", "d", "e", "f", "g", "h", "i", "j", "k", "l", "m",
     "n", "o", "p", "q", "r", "s", "t", "u", "v", "w", "x", "y", "z",
     "A", "B", "C", "D", "E", "F", "G", "H", "I", "J", "K", "L", "M",
     "N", "O", "P", "Q", "R", "S", "T", "U", "V", "W", "X", "Y", "Z"}

\* the characters \s matches
SpaceChars == {" ", "\n", "\t"}

\* the character at position i, "" outside the string
CharAt(s, i) == IF i \in 1..Len(s) THEN s[i] ELSE ""

IsWord(c) == c \in WordChars

\* \b between positions i-1 and i
WB(s, i) == IsWord(CharAt(s, i - 1)) # IsWord(CharAt(s, i))

\* the literal lit stands at position i of s
LitAt(s, i, lit) ==
    /\ i >= 1
    /\ i + Len(lit) - 1 <= Len(s)
    /\ \A k \in 1..Len(lit) : s[i + k - 1] = lit[k]

\* the same under re.IGNORECASE, for a lower-case literal
LitAtI(s, i, lit) ==
    /\ i >= 1
    /\ i + Len(lit) - 1 <= Len(s)
    /\ \A k \in 1..Len(lit) : Lower(s[i + k - 1]) = lit[k]

\* (t in s) for strings
IsSubstring(t, s) ==
    \E i \in 1..(Len(s) - Len(t) + 1) : LitAt(s, i, t)

\* " ".join(strs)
RECURSIVE JoinSpace(_)
JoinSpace(strs) ==
    IF strs = <<>> THEN <<>>
    ELSE IF Len(strs) = 1 THEN strs[1]
    ELSE strs[1] \o <<" ">> \o JoinSpace(Tail(strs))

(***************************************************************************)
(* The skill dictionary: the rules of SKILLS the model carries, in the     *)
(* order SKILLS lists them.                                                *)
(***************************************************************************)
SKILLS == <<"python", "java", "javascript", "react">>

\* \bpython\b
RxPython(s) ==
    \E i \in 1..Len(s) :
        WB(s, i) /\ LitAtI(s, i, <<"p","y","t","h","o","n">>) /\ WB(s, i + 6)

\* the java rule without its word boundaries and its look-ahead
RxJavaSubstring(s) == \E i \in 1..Len(s) : LitAtI(s, i, <<"j","a","v","a">>)

\* \bjava\b(?!script)
RxJava(s) ==
    \E i \in 1..Len(s) :
        /\ WB(s, i) /\ LitAtI(s, i, <<"j","a","v","a">>) /\ WB(s, i + 4)
        /\ ~LitAtI(s, i + 4, <<"s","c","r","i","p","t">>)

\* \bjavascript\b|\bjs\b
RxJavascript(s) ==
    \E i \in 1..Len(s) :
        \/ WB(s, i) /\ LitAtI(s, i, <<"j","a","v","a","s","c","r","i","p","t">>)
                    /\ WB(s, i + 10)
        \/ WB(s, i) /\ LitAtI(s, i, <<"j","s">>) /\ WB(s, i + 2)

\* \breact\.?js\b|\breact\b
RxReact(s) ==
    \E i \in 1..Len(s) :
        /\ WB(s, i)
        /\ LitAtI(s, i, <<"r","e","a","c","t">>)
        /\ \/ CharAt(s, i + 5) = "." /\ LitAtI(s, i + 6, <<"j","s">>) /\ WB(s, i + 8)
           \/ LitAtI(s, i + 5, <<"j","s">>) /\ WB(s, i + 7)
           \/ WB(s, i + 5)

\* re.search(pattern of the skill, s, re.IGNORECASE) is not None
RuleMatches(skill, s) ==
    CASE skill = "python"     -> RxPython(s)
      [] skill = "java"       -> RxJava(s)
      [] skill = "javascript" -> RxJavascript(s)
      [] skill = "react"      -> RxReact(s)
      [] OTHER                -> FALSE

\* _skill_match: the canonical names of the rules that match text, in the order
\* of SKILLS
skill_match(text) ==
    [t |-> "result", v |-> SelectSeq(SKILLS, LAMBDA c : RuleMatches(c, text))]

(***************************************************************************)
(* rank_jobs_by_resume.                                                    *)
(***************************************************************************)
SkillWeight == 6
TitleWeight == 12
SeniorityWeight == 4
TagWeight == 3

\* the elements of a sequence, as a set
Range(f) == {f[i] : i \in DOMAIN f}

\* every order in which the elements of the set S can be iterated
SetOrders(S) ==
    {o \in [1..Cardinality(S) -> S] : \A x \in S : \E i \in DOMAIN o : o[i] = x}

\* user_skills = set(resume_data.get("skills", []))
user_skills(rd) == Range(DictGetDefault(rd, "skills", PyList(<<>>)).v)

\* user_titles = {t.lower() for t in resume_data.get("job_titles", [])}
user_titles(rd) ==
    {LowerStr(t) : t \in Range(DictGetDefault(rd, "job_titles", PyList(<<>>)).v)}

\* user_seniority = resume_data.get("seniority", "")
user_seniority(rd) == DictGetDefault(rd, "seniority", PyStr(<<>>))

\* the skills of the profile that SKILLS knows, in the order and as often as
\* the profile lists them
skill_regex_ProfileOrder(rd) ==
    SelectSeq(DictGetDefault(rd, "skills", PyList(<<>>)).v,
              LAMBDA c : c \in Range(SKILLS))

\* the keys of skill_regex, in the insertion order of the dict comprehension:
\* {c: re.compile(p) for c, p in SKILLS if c in user_skills}
skill_regex(rd) == SelectSeq(SKILLS, LAMBDA c : c \in user_skills(rd))

\* iterating job.get("tags", []) : a list gives its items, a str its characters
TagItems(job) ==
    LET tg == DictGetDefault(job, "tags", PyList(<<>>)) IN
    IF tg.t = "list" THEN tg.v
    ELSE IF tg.t = "str" THEN [i \in 1..Len(tg.v) |-> PyStr(<<tg.v[i]>>)]
    ELSE <<>>

\* str(t) of a tag
TagText(tag) == tag.v

\* what makes the body of the loop raise TypeError for a job: a title or a
\* description that is truthy and not a str (str + str fails), or a tags value
\* that cannot be iterated (None, an int)
JobRaises(job) ==
    \/ Truthy(DictGet(job, "title")) /\ DictGet(job, "title").t # "str"
    \/ Truthy(DictGet(job, "description")) /\ DictGet(job, "description").t # "str"
    \/ DictGetDefault(job, "tags", PyList(<<>>)).t \notin {"list", "str"}

\* a blob the tags are left out of
BlobNoTags(job) ==
    OrEmptyStr(DictGet(job, "title")) \o <<" ">> \o
    OrEmptyStr(DictGet(job, "description")) \o <<" ">>

\* blob = (title or "") + " " + (description or "") + " " + " ".join(str(t) for t in tags)
Blob(job) ==
    OrEmptyStr(DictGet(job, "title")) \o <<" ">> \o
    OrEmptyStr(DictGet(job, "description")) \o <<" ">> \o
    JoinSpace([i \in 1..Len(TagItems(job)) |-> TagText(TagItems(job)[i])])

\* matching = [s for s, rx in skill_regex.items() if rx.search(blob)]
Matching(job, rd) ==
    LET blob == Blob(job) IN
    SelectSeq(skill_regex(rd), LAMBDA s : RuleMatches(s, blob))

\* the loop without its break: 12 for every title that matches
RECURSIVE TitleBonusNoBreak(_, _)
TitleBonusNoBreak(titles, jtitle_lower) ==
    IF titles = <<>> THEN 0
    ELSE (IF IsSubstring(Head(titles), jtitle_lower) THEN TitleWeight ELSE 0)
         + TitleBonusNoBreak(Tail(titles), jtitle_lower)

\* the loop with its break one level out: only the title iterated first is tried
TitleBonusFirstOnly(titles, jtitle_lower) ==
    IF titles # <<>> /\ IsSubstring(Head(titles), jtitle_lower)
    THEN TitleWeight ELSE 0

\* for t in user_titles: if t in jtitle_lower: score += 12; break
\* (titles is the order in which the set is iterated)
RECURSIVE TitleBonus(_, _)
TitleBonus(titles, jtitle_lower) ==
    IF titles = <<>> THEN 0
    ELSE IF IsSubstring(Head(titles), jtitle_lower) THEN TitleWeight
    ELSE TitleBonus(Tail(titles), jtitle_lower)

\* if user_seniority and user_seniority in jtitle_lower: score += 4
SeniorityBonus(rd, jtitle_lower) ==
    IF Truthy(user_seniority(rd)) /\ IsSubstring(user_seniority(rd).v, jtitle_lower)
    THEN SeniorityWeight ELSE 0

\* any(re.search(p, str(tag), re.IGNORECASE) for c, p in SKILLS if c in user_skills)
TagHit(tag, rd) ==
    \E k \in 1..Len(SKILLS) :
        SKILLS[k] \in user_skills(rd) /\ RuleMatches(SKILLS[k], TagText(tag))

\* tag_hits = [tag for tag in job.get("tags", []) if any(...)]
TagHits(job, rd) == SelectSeq(TagItems(job), LAMBDA tag : TagHit(tag, rd))

\* the score of one job whose matching skills are matching, lines 643-661
Score(job, rd, titles, matching) ==
    LET jtitle_lower == LowerStr(OrEmptyStr(DictGet(job, "title"))) IN
    Len(matching) * SkillWeight
    + TitleBonus(titles, jtitle_lower)
    + SeniorityBonus(rd, jtitle_lower)
    + Len(TagHits(job, rd)) * TagWeight

\* no copy: j is the input dict itself
CopyDictAlias(h, a) == [heap |-> h, addr |-> a]

\* a new dict built from the items of the old one, the source left out
CopyDictWithoutSource(h, a) ==
    [heap |-> Append(h, [f \in (DOMAIN h[a]) \ {"source"} |-> h[a][f]]),
     addr |-> Len(h) + 1]

\* j = job.copy(): a new dict object with the same items
CopyDict(h, a) == [heap |-> Append(h, h[a]), addr |-> Len(h) + 1]

\* no entry is taken to carry an error
HasErrorNever(d) == FALSE

\* "error" in d
HasError(d) == "error" \in DOMAIN d

\* the loop over jobs, lines 631-666, from position i of the list jl on;
\* st is [heap, origin, scored, raised]
RECURSIVE RankLoop(_, _, _, _, _)
RankLoop(i, jl, rd, titles, st) ==
    IF i > Len(jl) THEN st
    ELSE
        LET job == st.heap[jl[i]] IN
        IF HasError(job) THEN RankLoop(i + 1, jl, rd, titles, st)
        ELSE IF JobRaises(job) THEN [st EXCEPT !.raised = TRUE]
        ELSE
            LET matching == Matching(job, rd)
                score == Score(job, rd, titles, matching)
                c  == CopyDict(st.heap, jl[i])
                j1 == DictSet(c.heap[c.addr], "match_score", PyInt(score))
                j2 == DictSet(j1, "matching_skills", PyList(matching))
            IN  RankLoop(i + 1, jl, rd, titles,
                    [heap   |-> [c.heap EXCEPT ![c.addr] = j2],
                     origin |-> IF Len(c.heap) > Len(st.heap)
                                THEN Append(st.origin, jl[i]) ELSE st.origin,
                     scored |-> Append(st.scored, c.addr),
                     raised |-> FALSE])

\* an insertion that puts a before its equals
InsertPosTiesFirst(l, a, h) ==
    LET key(x) == h[x]["match_score"].v
        notLarger == {p \in 1..Len(l) : key(l[p]) <= key(a)}
    IN  IF notLarger = {} THEN Len(l) + 1
        ELSE CHOOSE p \in notLarger : \A q \in notLarger : p <= q

\* where list.sort(key, reverse=True) puts a among the already sorted l:
\* before the first element with a smaller key, so behind its equals
InsertPos(l, a, h) ==
    LET key(x) == h[x]["match_score"].v
        smaller == {p \in 1..Len(l) : key(l[p]) < key(a)}
    IN  IF smaller = {} THEN Len(l) + 1
        ELSE CHOOSE p \in smaller : \A q \in smaller : p <= q

\* scored.sort(key=lambda x: x["match_score"], reverse=True)
RECURSIVE SortReverse(_, _, _)
SortReverse(done, todo, h) ==
    IF todo = <<>> THEN done
    ELSE
        LET a == Head(todo)
            p == InsertPos(done, a, h)
        IN  SortReverse(SubSeq(done, 1, p - 1) \o <<a>> \o SubSeq(done, p, Len(done)),
                        Tail(todo), h)

\* the guard without its test of the error key
PassThroughNoErrorTest(jobs, rd) == jobs = <<>> \/ DOMAIN rd = {}

\* if not jobs or not resume_data or "error" in resume_data: return jobs
PassThrough(jobs, rd) == jobs = <<>> \/ DOMAIN rd = {} \/ HasError(rd)

\* rank_jobs_by_resume(jobs, resume_data) called on the list object jl with the
\* profile rd, user_titles being iterated in the order titles.  The result is
\* the return value and the heap, the lists and the origins after the call.
rank_jobs_by_resume(jl, rd, titles, h, ls, org) ==
    IF PassThrough(ls[jl], rd)
    THEN [ret |-> [t |-> "list", id |-> jl], heap |-> h, lists |-> ls, origin |-> org]
    ELSE
        LET st == RankLoop(1, ls[jl], rd, titles,
                           [heap |-> h, origin |-> org, scored |-> <<>>,
                            raised |-> FALSE])
        IN  IF st.raised
            THEN [ret |-> [t |-> "raise", id |-> 0], heap |-> st.heap,
                  lists |-> ls, origin |-> st.origin]
            ELSE [ret |-> [t |-> "list", id |-> Len(ls) + 1], heap |-> st.heap,
                  lists |-> Append(ls, SortReverse(<<>>, st.scored, st.heap)),
                  origin |-> st.origin]

(***************************************************************************)
(* _extract_experience_years_traced.                                       *)
(***************************************************************************)
DigitSeq == <<"0", "1", "2", "3", "4", "5", "6", "7", "8", "9">>
DigitVal(c) == (CHOOSE k \in 1..10 : DigitSeq[k] = c) - 1

\* int(digits)
RECURSIVE ParseInt(_)
ParseInt(ds) ==
    IF ds = <<>> THEN 0
    ELSE 10 * ParseInt(SubSeq(ds, 1, Len(ds) - 1)) + DigitVal(ds[Len(ds)])

\* the position after the longest run of digits that starts at i (\d+ or \d*)
RECURSIVE SkipDigits(_, _)
SkipDigits(s, i) ==
    IF CharAt(s, i) \in Digits THEN SkipDigits(s, i + 1) ELSE i

\* the position after the longest run of white space that starts at i (\s*)
RECURSIVE SkipSpaces(_, _)
SkipSpaces(s, i) ==
    IF CharAt(s, i) \in SpaceChars THEN SkipSpaces(s, i + 1) ELSE i

\* the position after an optional character c at i (c?)
OptChar(s, i, c) == IF CharAt(s, i) = c THEN i + 1 ELSE i

\* the position after the literal lit at i, 0 when it does not stand there, or
\* when i is 0 already
Lit(s, i, lit) == IF i >= 1 /\ LitAt(s, i, lit) THEN i + Len(lit) ELSE 0

\* \s* after position i, 0 staying 0
Spaces(s, i) == IF i = 0 THEN 0 ELSE SkipSpaces(s, i)

\* (\d+)\+?\s*years? from position i: [e |-> the position after it, 0 when it
\* does not match; d |-> the position after the digits]
NumberYears(s, i) ==
    LET d == SkipDigits(s, i)
        y == IF d = i THEN 0
             ELSE Lit(s, SkipSpaces(s, OptChar(s, d, "+")), <<"y","e","a","r">>)
    IN  [e |-> IF y = 0 THEN 0 ELSE OptChar(s, y, "s"), d |-> d]

NoMatch == [found |-> FALSE, group1 |-> 0]

\* (\d+)\+?\s*years?\s*of\s*(?:professional\s*)?experience matched at i
Phrase1At(s, i) ==
    LET ny == NumberYears(s, i)
        o  == Spaces(s, Lit(s, Spaces(s, ny.e), <<"o","f">>))
        p  == Lit(s, o, <<"p","r","o","f","e","s","s","i","o","n","a","l">>)
        x  == Lit(s, IF p = 0 THEN o ELSE SkipSpaces(s, p),
                  <<"e","x","p","e","r","i","e","n","c","e">>)
    IN  IF x = 0 THEN NoMatch
        ELSE [found |-> TRUE, group1 |-> ParseInt(SubSeq(s, i, ny.d - 1))]

\* (\d+)\+?\s*years?\s*experience matched at i
Phrase2At(s, i) ==
    LET ny == NumberYears(s, i)
        x  == Lit(s, Spaces(s, ny.e), <<"e","x","p","e","r","i","e","n","c","e">>)
    IN  IF x = 0 THEN NoMatch
        ELSE [found |-> TRUE, group1 |-> ParseInt(SubSeq(s, i, ny.d - 1))]

\* experience\s*[:\-]\s*(\d+)\+?\s*years? matched at i
Phrase3At(s, i) ==
    LET x  == Spaces(s, Lit(s, i, <<"e","x","p","e","r","i","e","n","c","e">>))
        c  == IF x # 0 /\ CharAt(s, x) \in {":", "-"} THEN SkipSpaces(s, x + 1) ELSE 0
        ny == IF c = 0 THEN [e |-> 0, d |-> 0] ELSE NumberYears(s, c)
    IN  IF ny.e = 0 THEN NoMatch
        ELSE [found |-> TRUE, group1 |-> ParseInt(SubSeq(s, c, ny.d - 1))]

PhraseAt(name, s, i) ==
    CASE name = "explicit_phrase_1" -> Phrase1At(s, i)
      [] name = "explicit_phrase_2" -> Phrase2At(s, i)
      [] name = "explicit_phrase_3" -> Phrase3At(s, i)

\* re.search(pat, s): the match at the leftmost position where the pattern matches
PhraseSearch(name, s) ==
    LET at == {i \in 1..Len(s) : PhraseAt(name, s, i).found} IN
    IF at = {} THEN NoMatch
    ELSE PhraseAt(name, s, CHOOSE i \in at : \A j \in at : i <= j)

\* the patterns with the second phrasing tried before the first
patternsSecondFirst == <<"explicit_phrase_2", "explicit_phrase_1", "explicit_phrase_3">>

\* the names of patterns, in the order of the list
patterns == <<"explicit_phrase_1", "explicit_phrase_2", "explicit_phrase_3">>

\* \b(19[89]\d|20[012]\d)\b matched at i
YearAt(s, i) ==
    /\ WB(s, i)
    /\ \/ LitAt(s, i, <<"1","9">>) /\ CharAt(s, i + 2) \in {"8", "9"}
       \/ LitAt(s, i, <<"2","0">>) /\ CharAt(s, i + 2) \in {"0", "1", "2"}
    /\ CharAt(s, i + 3) \in Digits
    /\ WB(s, i + 4)

\* years = re.findall(r"\b(19[89]\d|20[012]\d)\b", text), as ints, from i on
RECURSIVE FindYears(_, _)
FindYears(s, i) ==
    IF i > Len(s) THEN <<>>
    ELSE IF YearAt(s, i)
         THEN <<ParseInt(SubSeq(s, i, i + 3))>> \o FindYears(s, i + 4)
         ELSE FindYears(s, i + 1)

\* sorted(set(years))
RECURSIVE SortedSet(_)
SortedSet(S) ==
    IF S = {} THEN <<>>
    ELSE LET lo == CHOOSE x \in S : \A y \in S : x <= y
         IN  <<lo>> \o SortedSet(S \ {lo})

\* the years counted with their repetitions
unique_years_with_repeats(years) == years

\* unique_years = sorted(set(int(y) for y in years))
unique_years(years) == SortedSet(Range(years))

\* the loop over patterns from position k of the list on, then the fallback
RECURSIVE ExperienceFrom(_, _)
ExperienceFrom(k, text) ==
    IF k <= Len(patterns) THEN
        LET m == PhraseSearch(patterns[k], LowerStr(text)) IN
        IF m.found
        THEN [t |-> "result", result |-> m.group1, method |-> patterns[k]]
        ELSE ExperienceFrom(k + 1, text)
    ELSE
        LET u == unique_years(FindYears(text, 1)) IN
        IF Len(u) >= 2
        THEN [t |-> "result", result |-> u[Len(u)] - u[1], method |-> "year_span_fallback"]
        ELSE [t |-> "result", result |-> 0, method |-> "not_detected"]

extract_experience_years_traced(text) == ExperienceFrom(1, text)

(***************************************************************************)
(* SENIORITY_PATTERNS and _extract_seniority_traced.                       *)
(***************************************************************************)
\* years?\b from position i
YearsWordAt(s, i) ==
    \/ LitAt(s, i, <<"y","e","a","r","s">>) /\ WB(s, i + 5)
    \/ LitAt(s, i, <<"y","e","a","r">>) /\ WB(s, i + 4)

\* \+?\s*years?\b from position i
PlusYearsAt(s, i) == YearsWordAt(s, SkipSpaces(s, OptChar(s, i, "+")))

\* \b(10|1[1-9]|[2-9]\d)\+?\s*years?\b matched at i
RxSeniorAt(s, i) ==
    /\ WB(s, i)
    /\ \/ CharAt(s, i) = "1" /\ CharAt(s, i + 1) = "0"
       \/ CharAt(s, i) = "1" /\ CharAt(s, i + 1) \in Digits \ {"0"}
       \/ CharAt(s, i) \in Digits \ {"0", "1"} /\ CharAt(s, i + 1) \in Digits
    /\ PlusYearsAt(s, i + 2)

\* \b[5-9]\+?\s*years?\b matched at i
RxMidSeniorAt(s, i) ==
    WB(s, i) /\ CharAt(s, i) \in {"5", "6", "7", "8", "9"} /\ PlusYearsAt(s, i + 1)

\* \b[3-4]\+?\s*years?\b matched at i
RxMidAt(s, i) ==
    WB(s, i) /\ CharAt(s, i) \in {"3", "4"} /\ PlusYearsAt(s, i + 1)

\* the junior rule with its digit optional
RxJuniorAtDigitOptional(s, i) == WB(s, i) /\ PlusYearsAt(s, i)

\* \b[1-2]\+?\s*years?\b matched at i
RxJuniorAt(s, i) ==
    WB(s, i) /\ CharAt(s, i) \in {"1", "2"} /\ PlusYearsAt(s, i + 1)

\* re.search(pat, s) is not None, for the pattern of the level
SeniorityMatches(level, s) ==
    \E i \in 1..Len(s) :
        CASE level = "senior"     -> RxSeniorAt(s, i)
          [] level = "mid-senior" -> RxMidSeniorAt(s, i)
          [] level = "mid"        -> RxMidAt(s, i)
          [] level = "junior"     -> RxJuniorAt(s, i)

\* the levels with the lowest range tried first
SENIORITY_PATTERNS_JuniorFirst == <<"junior", "mid", "mid-senior", "senior">>

\* the levels of SENIORITY_PATTERNS, in the order of the list
SENIORITY_PATTERNS == <<"senior", "mid-senior", "mid", "junior">>

\* the loop over SENIORITY_PATTERNS from position k of the list on, then the
\* default
RECURSIVE SeniorityFrom(_, _)
SeniorityFrom(k, tl) ==
    IF k <= Len(SENIORITY_PATTERNS) THEN
        IF SeniorityMatches(SENIORITY_PATTERNS[k], tl)
        THEN [t |-> "result", level |-> SENIORITY_PATTERNS[k],
              method |-> "years_pattern"]
        ELSE SeniorityFrom(k + 1, tl)
    ELSE [t |-> "result", level |-> "entry", method |-> "default_no_years_mentioned"]

extract_seniority_traced(text) == SeniorityFrom(1, LowerStr(text))

(***************************************************************************)
(* EDUCATION_KEYWORDS and _extract_education.                              *)
(***************************************************************************)
EDUCATION_KEYWORDS ==
    << <<"b","a","c","h","e","l","o","r">>,
       <<"b",".","s","c">>,
       <<"b",".","t","e","c","h">>,
       <<"b",".","e">>,
       <<"m","a","s","t","e","r">>,
       <<"m",".","s","c">>,
       <<"m",".","t","e","c","h">>,
       <<"m","b","a">>,
       <<"p","h","d">>,
       <<"d","o","c","t","o","r","a","t","e">>,
       <<"d","e","g","r","e","e">>,
       <<"u","n","i","v","e","r","s","i","t","y">>,
       <<"c","o","l","l","e","g","e">>,
       <<"i","n","s","t","i","t","u","t","e">> >>

\* text.split("\n")
RECURSIVE SplitLines(_)
SplitLines(s) ==
    LET nl == {i \in 1..Len(s) : s[i] = "\n"} IN
    IF nl = {} THEN <<s>>
    ELSE LET i == CHOOSE x \in nl : \A y \in nl : x <= y
         IN  <<SubSeq(s, 1, i - 1)>> \o SplitLines(SubSeq(s, i + 1, Len(s)))

\* line.strip()
Strip(line) ==
    LET ink == {i \in 1..Len(line) : line[i] \notin SpaceChars} IN
    IF ink = {} THEN <<>>
    ELSE SubSeq(line, CHOOSE x \in ink : \A y \in ink : x <= y,
                      CHOOSE x \in ink : \A y \in ink : y <= x)

\* any(k in ll for k in EDUCATION_KEYWORDS)
HasEducationKeyword(ll) ==
    \E k \in 1..Len(EDUCATION_KEYWORDS) : IsSubstring(EDUCATION_KEYWORDS[k], ll)

\* the test of the loop body on one line
EducationLine(line) ==
    HasEducationKeyword(LowerStr(line)) /\ Len(Strip(line)) > 5

\* the loop over the lines from position k on: the stripped lines that pass
RECURSIVE EducationFrom(_, _)
EducationFrom(k, lines) ==
    IF k > Len(lines) THEN <<>>
    ELSE (IF EducationLine(lines[k]) THEN <<Strip(lines[k])>> ELSE <<>>)
         \o EducationFrom(k + 1, lines)

\* a return of all the lines collected
FirstFiveUncut(collected) == collected

\* edu[:5]
FirstFive(collected) ==
    SubSeq(collected, 1, IF Len(collected) < 5 THEN Len(collected) ELSE 5)

extract_education(text) ==
    [t |-> "result", v |-> FirstFive(EducationFrom(1, SplitLines(text)))]

(***************************************************************************)
(* The resume texts: every text is a concatenation of at most MaxChunks    *)
(* of these chunks.                                                        *)
(***************************************************************************)
Chunks ==
    << <<"5","+"," ","y","e","a","r","s">>,
       <<" ","1","2"," ","Y","e","a","r","s"," ","o","f">>,
       <<" ","e","x","p","e","r","i","e","n","c","e">>,
       <<" ","E","x","p","e","r","i","e","n","c","e",":">>,
       <<" ","2","0","1","5">>,
       <<"-","2","0","2","0">>,
       <<" ","1","9","7","9">> >>

\* the text of a document made of the chunks d
RECURSIVE Text(_)
Text(d) == IF d = <<>> THEN <<>> ELSE Chunks[Head(d)] \o Text(Tail(d))

\* the phrases the texts of the seniority extraction are made of
SenChunks ==
    << <<"5","+"," ","y","e","a","r","s">>,
       <<" ","1","2"," ","Y","e","a","r","s">>,
       <<" ","3"," ","y","e","a","r","s">>,
       <<" ","1"," ","y","e","a","r">>,
       <<" ","0"," ","y","e","a","r","s">>,
       <<" ","m","a","n","y"," ","y","e","a","r","s">>,
       <<" ","e","x","p","e","r","i","e","n","c","e">>,
       <<" ","2","0","2","0">> >>

\* the text of a document made of the phrases d
RECURSIVE SenText(_)
SenText(d) == IF d = <<>> THEN <<>> ELSE SenChunks[Head(d)] \o SenText(Tail(d))

\* the pieces the texts of the skill matching are made of
SkillChunks ==
    << <<"J","a","v","a","S","c","r","i","p","t">>,
       <<"J","a","v","a">>,
       <<" ">>,
       <<"s","c","r","i","p","t">>,
       <<"-">>,
       <<"j","s">> >>

\* the text of a document made of the pieces d
RECURSIVE SkillText(_)
SkillText(d) == IF d = <<>> THEN <<>> ELSE SkillChunks[Head(d)] \o SkillText(Tail(d))

\* the lines the texts of the education extraction are made of
EduLines ==
    << <<"M","B","A"," ","a","t">>,
       <<" ","P","h","D"," ">>,
       <<" ","D","e","g","r","e","e",":"," ","B","S","c"," ">>,
       <<"P","y","t","h","o","n">> >>

\* the text of a document made of the lines d: the lines, with a line break
\* between one and the next
RECURSIVE EduText(_)
EduText(d) ==
    IF d = <<>> THEN <<>>
    ELSE IF Len(d) = 1 THEN EduLines[Head(d)]
    ELSE EduLines[Head(d)] \o <<"\n">> \o EduText(Tail(d))

(***************************************************************************)
(* The postings and the profiles the calls are made with.                  *)
(***************************************************************************)
\* _normalize_job: the dict a source adapter builds
normalize_job(title, description, tags) ==
    [title           |-> PyStr(title),
     description     |-> PyStr(description),
     source          |-> PyStr(<<"R">>),
     tags            |-> PyList(tags),
     match_score     |-> PyInt(0),
     matching_skills |-> PyList(<<>>)]

TxtSeniorSoftwareEngineer == <<"S","e","n","i","o","r"," ","S","o","f","t","w","a","r","e"," ","E","n","g","i","n","e","e","r">>
TxtPythonServices == <<"P","y","t","h","o","n"," ","s","e","r","v","i","c","e","s">>
TxtMidDeveloper == <<"M","i","d"," ","D","e","v","e","l","o","p","e","r">>
TxtReactAndJavaScript == <<"R","e","a","c","t",".","j","s"," ","a","n","d"," ","J","a","v","a","S","c","r","i","p","t">>
TxtDataEngineer == <<"D","a","t","a"," ","E","n","g","i","n","e","e","r">>
TxtSoftwareEngineer == <<"s","o","f","t","w","a","r","e"," ","e","n","g","i","n","e","e","r">>
TxtSoftwareEngineerCap == <<"S","o","f","t","w","a","r","e"," ","E","n","g","i","n","e","e","r">>
TxtEngineer == <<"e","n","g","i","n","e","e","r">>

\* well-formed postings, and an entry that carries an "error" key
JobA0 == normalize_job(TxtSeniorSoftwareEngineer, TxtPythonServices, <<>>)
JobA1 == normalize_job(TxtSeniorSoftwareEngineer, TxtPythonServices,
                       <<PyStr(<<"r","e","a","c","t">>)>>)
JobB0 == normalize_job(TxtMidDeveloper, TxtReactAndJavaScript, <<>>)
JobB1 == normalize_job(TxtMidDeveloper, TxtReactAndJavaScript,
                       <<PyStr(<<"r","e","a","c","t">>)>>)
\* a posting that was ranked before and still carries that ranking's fields
JobC0 ==
    [normalize_job(TxtDataEngineer, <<>>, <<PyStr(<<"J","a","v","a">>)>>)
        EXCEPT !.match_score = PyInt(7), !.matching_skills = PyList(<<"sql">>)]
JobErr == [error |-> PyStr(<<"e">>), title |-> PyStr(TxtMidDeveloper),
           match_score |-> PyInt(0), matching_skills |-> PyList(<<>>)]

\* malformed postings: tags present but None; title and tags missing and the
\* description None
JobTagsNone == [title |-> PyStr(TxtMidDeveloper),
                description |-> PyStr(TxtReactAndJavaScript),
                tags |-> PyNone]
JobMissing == [description |-> PyNone, source |-> PyStr(<<"R">>)]

Pool == <<JobA0, JobA1, JobB0, JobB1, JobC0, JobErr>>
PoolMalformed == Pool \o <<JobTagsNone, JobMissing>>

\* profiles as extract_resume_pdf builds them, an error profile and {}
ProfileExample ==
    [skills     |-> PyList(<<"python", "react">>),
     job_titles |-> PyList(<<TxtSoftwareEngineer>>),
     seniority  |-> PyStr(<<"m","i","d">>)]
ProfileTwoTitles ==
    [skills     |-> PyList(<<"react", "cobol", "java">>),
     job_titles |-> PyList(<<TxtSoftwareEngineerCap, TxtEngineer>>),
     seniority  |-> PyStr(<<"s","e","n","i","o","r">>)]
ProfileSkillsOnly == [skills |-> PyList(<<"java">>)]
ProfileError == [error |-> PyStr(<<"F">>)]
ProfileEmpty == [k \in {} |-> PyNone]

Profiles ==
    <<ProfileExample, ProfileTwoTitles, ProfileSkillsOnly, ProfileError, ProfileEmpty>>

NoResult == [t |-> "none"]

\* no seniority, skill or education extraction has run; no pipeline is running
TextIdle == sen = NoResult /\ hits = NoResult /\ edu = NoResult
PipeIdle == pc = "idle" /\ log = <<>> /\ out = NoResult

\* the caller holds a list of at most MaxJobs postings drawn from pool, as list
\* object 1 over the dicts at addresses 1..n, and a profile
InitRank(pool) ==
    \E n \in 0..MaxJobs :
        \E js \in [1..n -> 1..Len(pool)], p \in 1..Len(Profiles) :
            /\ heap = [i \in 1..n |-> pool[js[i]]]
            /\ lists = <<[i \in 1..n |-> i]>>
            /\ origin = [i \in 1..n |-> i]
            /\ resume_data = Profiles[p]
            /\ jobs0 = [i \in 1..n |-> pool[js[i]]]
            /\ rets = <<>>
            /\ doc = <<>>
            /\ exp = NoResult
            /\ TextIdle
            /\ PipeIdle

\* a call rank_jobs_by_resume(jobs, resume_data) on the caller's list
Call ==
    /\ Len(rets) < MaxCalls
    /\ \E titles \in SetOrders(user_titles(resume_data)) :
        LET r == rank_jobs_by_resume(1, resume_data, titles, heap, lists, origin) IN
        /\ heap' = r.heap
        /\ lists' = r.lists
        /\ origin' = r.origin
        /\ rets' = Append(rets, r.ret)
    /\ UNCHANGED <<resume_data, jobs0, doc, exp, sen, hits, edu, pc, log, out>>

Init == InitRank(Pool)
Next == Call
Spec == Init /\ [][Next]_vars

InitMalformed == InitRank(PoolMalformed)
SpecMalformed == InitMalformed /\ [][Next]_vars

\* profiles that list their skills out of the order of SKILLS, one of them
\* twice, with a skill SKILLS does not know; and one with no other skill
ProfileShuffled ==
    [skills     |-> PyList(<<"react", "cobol", "javascript", "python", "react">>),
     job_titles |-> PyList(<<>>),
     seniority  |-> PyStr(<<"e","n","t","r","y">>)]
ProfileUnknownSkill ==
    [skills     |-> PyList(<<"cobol">>),
     job_titles |-> PyList(<<TxtEngineer>>),
     seniority  |-> PyStr(<<"e","n","t","r","y">>)]
ProfilesMatching == <<ProfileShuffled, ProfileUnknownSkill>>
PoolMatching == <<JobA1, JobB1, JobC0>>

\* the caller holds a list of at most MaxJobs postings drawn from PoolMatching
\* and one of ProfilesMatching
InitMatching ==
    \E n \in 0..MaxJobs :
        \E js \in [1..n -> 1..Len(PoolMatching)], p \in 1..Len(ProfilesMatching) :
            /\ heap = [i \in 1..n |-> PoolMatching[js[i]]]
            /\ lists = <<[i \in 1..n |-> i]>>
            /\ origin = [i \in 1..n |-> i]
            /\ resume_data = ProfilesMatching[p]
            /\ jobs0 = [i \in 1..n |-> PoolMatching[js[i]]]
            /\ rets = <<>>
            /\ doc = <<>>
            /\ exp = NoResult
            /\ TextIdle
            /\ PipeIdle
SpecMatching == InitMatching /\ [][Next]_vars

\* the text extraction starts from: an empty document, nothing to rank
InitExtract ==
    /\ doc = <<>>
    /\ exp = NoResult
    /\ heap = <<>>
    /\ lists = <<<<>>>>
    /\ origin = <<>>
    /\ resume_data = ProfileEmpty
    /\ jobs0 = <<>>
    /\ rets = <<>>
    /\ TextIdle
    /\ PipeIdle

\* the document grows by one chunk; what was extracted from it is stale
AppendChunk ==
    /\ Len(doc) < MaxChunks
    /\ \E c \in 1..Len(Chunks) : doc' = Append(doc, c)
    /\ exp' = NoResult
    /\ UNCHANGED <<heap, lists, origin, resume_data, jobs0, rets>>
    /\ UNCHANGED <<sen, hits, edu, pc, log, out>>

\* exp_years, exp_trace = _extract_experience_years_traced(text)
Extract ==
    /\ exp = NoResult
    /\ exp' = extract_experience_years_traced(Text(doc))
    /\ UNCHANGED <<heap, lists, origin, resume_data, jobs0, rets, doc>>
    /\ UNCHANGED <<sen, hits, edu, pc, log, out>>

NextExtract == AppendChunk \/ Extract
SpecExtract == InitExtract /\ [][NextExtract]_vars

\* the document grows by one phrase; what was extracted from it is stale
AppendPhrase ==
    /\ Len(doc) < MaxPhrases
    /\ \E c \in 1..Len(SenChunks) : doc' = Append(doc, c)
    /\ exp' = NoResult
    /\ sen' = NoResult
    /\ UNCHANGED <<heap, lists, origin, resume_data, jobs0, rets>>
    /\ UNCHANGED <<hits, edu, pc, log, out>>

\* exp_years, exp_trace = _extract_experience_years_traced(text)
ExtractExperience ==
    /\ exp = NoResult
    /\ exp' = extract_experience_years_traced(SenText(doc))
    /\ UNCHANGED <<heap, lists, origin, resume_data, jobs0, rets, doc>>
    /\ UNCHANGED <<sen, hits, edu, pc, log, out>>

\* seniority, sen_trace = _extract_seniority_traced(text)
ExtractSeniority ==
    /\ exp # NoResult
    /\ sen = NoResult
    /\ sen' = extract_seniority_traced(SenText(doc))
    /\ UNCHANGED <<heap, lists, origin, resume_data, jobs0, rets, doc>>
    /\ UNCHANGED <<exp, hits, edu, pc, log, out>>

\* the document grows by one piece; the skills matched in it are stale
AppendToken ==
    /\ Len(doc) < MaxTokens
    /\ \E c \in 1..Len(SkillChunks) : doc' = Append(doc, c)
    /\ hits' = NoResult
    /\ UNCHANGED <<heap, lists, origin, resume_data, jobs0, rets>>
    /\ UNCHANGED <<exp, sen, edu, pc, log, out>>

\* skill_hits = _skill_match(text)
MatchSkills ==
    /\ hits = NoResult
    /\ hits' = skill_match(SkillText(doc))
    /\ UNCHANGED <<heap, lists, origin, resume_data, jobs0, rets, doc>>
    /\ UNCHANGED <<exp, sen, edu, pc, log, out>>

NextSkills == AppendToken \/ MatchSkills
SpecSkills == InitExtract /\ [][NextSkills]_vars

\* the document grows by one line; the education lines found in it are stale
AppendLine ==
    /\ Len(doc) < MaxLines
    /\ \E c \in 1..Len(EduLines) : doc' = Append(doc, c)
    /\ edu' = NoResult
    /\ UNCHANGED <<heap, lists, origin, resume_data, jobs0, rets>>
    /\ UNCHANGED <<exp, sen, hits, pc, log, out>>

\* education = _extract_education(text)
ExtractEducation ==
    /\ edu = NoResult
    /\ edu' = extract_education(EduText(doc))
    /\ UNCHANGED <<heap, lists, origin, resume_data, jobs0, rets, doc>>
    /\ UNCHANGED <<exp, sen, hits, pc, log, out>>

NextEducation == AppendLine \/ ExtractEducation
SpecEducation == InitExtract /\ [][NextEducation]_vars

NextSeniority == AppendPhrase \/ ExtractExperience \/ ExtractSeniority
SpecSeniority == InitExtract /\ [][NextSeniority]_vars

(***************************************************************************)
(* The source adapters, search_jobs_all_sources and find_jobs_for_resume.  *)
(* A request to a job board is outside the program: what it does is an     *)
(* outcome the step draws, "ok" with the records the board sent, or one of *)
(* the failures.                                                           *)
(***************************************************************************)
SrcAdzuna == <<"A","d","z","u","n","a">>
SrcRemotive == <<"R","e","m","o","t","i","v","e">>
SrcJobicy == <<"J","o","b","i","c","y">>
SrcUSAJobs == <<"U","S","A","J","o","b","s">>

\* the records a job board sends: title, description and tags
RawRecords ==
    << [title |-> <<"J","a","v","a"," ","D","e","v">>, description |-> <<>>,
        tags |-> <<PyStr(<<"r","e","a","c","t">>)>>],
       [title |-> <<"M","i","d">>, description |-> <<"P","y","t","h","o","n">>,
        tags |-> <<>>] >>

Outcomes == {"ok", "timeout", "status", "malformed"}

\* the lists of at most MaxPerSource records a board may send
RawLists ==
    UNION {[1..n -> 1..Len(RawRecords)] : n \in 0..MaxPerSource}

\* the body of an adapter's try block: requests.get raises on a timeout, a
\* status other than 200 returns [], a payload of the wrong shape raises while
\* it is read, and otherwise every record goes through _normalize_job, with
\* its tags when the adapter passes them
AdapterBody(source, passesTags, outcome, raws) ==
    CASE outcome = "status" -> [t |-> "list", v |-> <<>>]
      [] outcome \in {"timeout", "malformed"} -> [t |-> "raise", v |-> <<>>]
      [] OTHER ->
            [t |-> "list",
             v |-> [i \in 1..Len(raws) |->
                       [normalize_job(RawRecords[raws[i]].title,
                                      RawRecords[raws[i]].description,
                                      IF passesTags THEN RawRecords[raws[i]].tags
                                      ELSE <<>>)
                           EXCEPT !.source = PyStr(source)]]]

\* an adapter without its except clause
CatchNone(r) == r

\* except Exception: return []
CatchAll(r) == IF r.t = "raise" THEN [t |-> "list", v |-> <<>>] ELSE r

search_adzuna(outcome, raws) == CatchAll(AdapterBody(SrcAdzuna, FALSE, outcome, raws))
search_remotive(outcome, raws) == CatchAll(AdapterBody(SrcRemotive, TRUE, outcome, raws))
search_jobicy(outcome, raws) == CatchAll(AdapterBody(SrcJobicy, TRUE, outcome, raws))

\* _search_usajobs returns [] without a request while no API key is configured
search_usajobs(configured, outcome, raws) ==
    IF ~configured THEN [t |-> "list", v |-> <<>>]
    ELSE CatchAll(AdapterBody(SrcUSAJobs, FALSE, outcome, raws))

\* jobs += more
ListExtend(jobs, more) == jobs \o more

\* the profiles extract_resume_pdf may return: the two errors, a profile with
\* skills and titles, a profile in which nothing was detected
ErrFileNotFound == <<"F","i","l","e"," ","n","o","t"," ","f","o","u","n","d",":"," ","r","e","s","u","m","e",".","p","d","f">>
ErrExtraction == <<"P","D","F"," ","e","x","t","r","a","c","t","i","o","n"," ","f","a","i","l","e","d",":"," ","E","O","F">>
ProfileNothing ==
    [skills     |-> PyList(<<>>),
     job_titles |-> PyList(<<>>),
     seniority  |-> PyStr(<<"e","n","t","r","y">>)]
ExtractOutcomes ==
    <<[error |-> PyStr(ErrFileNotFound)], [error |-> PyStr(ErrExtraction)],
      ProfileExample, ProfileNothing>>

\* a pipeline that never sees the error
ProfileHasErrorNever(profile) == FALSE

\* "error" in profile
ProfileHasError(profile) == "error" \in DOMAIN profile

\* the message find_jobs_for_resume returns for an error profile: the warning
\* sign, written "!" here, two blanks and the error
ErrorMessage(profile) == [t |-> "message", v |-> <<"!", " ", " ">> \o profile.error.v]

LogEntry(op, failed, result) == [op |-> op, failed |-> failed, result |-> result]

\* find_jobs_for_resume was called and is about to read the resume
InitPipeline ==
    /\ pc = "start"
    /\ log = <<>>
    /\ out = NoResult
    /\ heap = <<>>
    /\ lists = <<<<>>>>
    /\ origin = <<>>
    /\ resume_data = ProfileEmpty
    /\ jobs0 = <<>>
    /\ rets = <<>>
    /\ doc = <<>>
    /\ exp = NoResult
    /\ TextIdle

\* profile = extract_resume_pdf(RESUME_PATH, verbose=True), and the return of
\* the message when the profile is an error
ExtractResume ==
    /\ pc = "start"
    /\ \E k \in 1..Len(ExtractOutcomes) :
        /\ resume_data' = ExtractOutcomes[k]
        /\ log' = Append(log, LogEntry("extract", ProfileHasError(ExtractOutcomes[k]), <<>>))
        /\ IF ProfileHasError(ExtractOutcomes[k])
           THEN out' = ErrorMessage(ExtractOutcomes[k]) /\ pc' = "done"
           ELSE out' = out /\ pc' = "adzuna"
    /\ UNCHANGED <<heap, lists, origin, jobs0, rets, doc, exp, sen, hits, edu>>

\* jobs += r, for what the adapter op returned; an exception that leaves the
\* adapter leaves search_jobs_all_sources and find_jobs_for_resume too
Fetch(op, next, failed, r) ==
    /\ IF r.t = "raise"
       THEN /\ pc' = "raised"
            /\ log' = Append(log, LogEntry(op, failed, <<>>))
            /\ UNCHANGED <<heap, lists, origin>>
       ELSE /\ pc' = next
            /\ log' = Append(log, LogEntry(op, failed, r.v))
            /\ heap' = ListExtend(heap, r.v)
            /\ lists' = <<[i \in 1..Len(heap') |-> i]>>
            /\ origin' = [i \in 1..Len(heap') |-> i]
    /\ UNCHANGED <<resume_data, jobs0, rets, doc, exp, sen, hits, edu, out>>

\* jobs += _search_adzuna(query, location, n)
SearchAdzuna ==
    /\ pc = "adzuna"
    /\ \E outcome \in Outcomes, raws \in RawLists :
        /\ outcome # "ok" => raws = <<>>
        /\ Fetch("adzuna", "remotive", outcome # "ok", search_adzuna(outcome, raws))

\* jobs += _search_remotive(query, n)
SearchRemotive ==
    /\ pc = "remotive"
    /\ \E outcome \in Outcomes, raws \in RawLists :
        /\ outcome # "ok" => raws = <<>>
        /\ Fetch("remotive", "jobicy", outcome # "ok", search_remotive(outcome, raws))

\* jobs += _search_jobicy(query, n)
SearchJobicy ==
    /\ pc = "jobicy"
    /\ \E outcome \in Outcomes, raws \in RawLists :
        /\ outcome # "ok" => raws = <<>>
        /\ Fetch("jobicy", "usajobs", outcome # "ok", search_jobicy(outcome, raws))

\* jobs += _search_usajobs(query, n)
SearchUsajobs ==
    /\ pc = "usajobs"
    /\ \E configured \in BOOLEAN, outcome \in Outcomes, raws \in RawLists :
        /\ (outcome # "ok" \/ ~configured) => raws = <<>>
        /\ ~configured => outcome = "ok"
        /\ Fetch("usajobs", "rank", outcome # "ok",
                 search_usajobs(configured, outcome, raws))

\* ranked = rank_jobs_by_resume(raw_jobs, profile), and the return of the
\* summary with the ranked postings
RankAndReport ==
    /\ pc = "rank"
    /\ \E titles \in SetOrders(user_titles(resume_data)) :
        LET r == rank_jobs_by_resume(1, resume_data, titles, heap, lists, origin) IN
        /\ heap' = r.heap
        /\ lists' = r.lists
        /\ origin' = r.origin
        /\ rets' = Append(rets, r.ret)
        /\ out' = [t |-> "report", total |-> Len(lists[1]), ranked |-> r.ret]
    /\ jobs0' = heap
    /\ log' = Append(log, LogEntry("rank", FALSE, <<>>))
    /\ pc' = "done"
    /\ UNCHANGED <<resume_data, doc, exp, sen, hits, edu>>

NextPipeline ==
    \/ ExtractResume
    \/ SearchAdzuna
    \/ SearchRemotive
    \/ SearchJobicy
    \/ SearchUsajobs
    \/ RankAndReport
SpecPipeline == InitPipeline /\ [][NextPipeline]_vars

(***************************************************************************)
(* Reading a state: the calls made so far and what they returned.          *)
(***************************************************************************)
NInput == Len(jobs0)
InputList == [i \in 1..NInput |-> i]

\* call k returned a list of its own, not the caller's
IsScoredCall(k) == rets[k].t = "list" /\ rets[k].id # 1

\* the addresses in the list call k returned
Returned(k) == lists[rets[k].id]

ScoreOf(a) == heap[a]["match_score"].v
SkillsOf(a) == heap[a]["matching_skills"].v

\* the posting, as handed over, that the dict at a stands for
InputOf(a) == jobs0[origin[a]]

\* a profile that is neither empty nor an error
NonErrorProfile == DOMAIN resume_data # {} /\ "error" \notin DOMAIN resume_data

IsProfile(p) == DOMAIN resume_data = DOMAIN p /\ resume_data = p
IsJob(x, j) == DOMAIN x = DOMAIN j /\ x = j

\* t is a substring of s, case-insensitively
SubstringCI(t, s) == IsSubstring(LowerStr(t), LowerStr(s))

\* title + " " + description + " " + the tags joined by spaces
ClaimBlob(job) ==
    job.title.v \o <<" ">> \o job.description.v \o <<" ">> \o
    JoinSpace([i \in 1..Len(job.tags.v) |-> job.tags.v[i].v])

\* the score the rubric gives
ClaimScore(job, rd) ==
    6 * Cardinality({s \in user_skills(rd) : RuleMatches(s, ClaimBlob(job))})
    + (IF \E t \in Range(DictGetDefault(rd, "job_titles", PyList(<<>>)).v) :
              SubstringCI(t, job.title.v)
       THEN 12 ELSE 0)
    + (IF "seniority" \in DOMAIN rd /\ SubstringCI(rd.seniority.v, job.title.v)
       THEN 4 ELSE 0)
    + 3 * Cardinality({i \in 1..Len(job.tags.v) :
              \E s \in user_skills(rd) : RuleMatches(s, job.tags.v[i].v)})

(***************************************************************************)
(* The claims about rank_jobs_by_resume.                                   *)
(***************************************************************************)

\* C1: a call with a non-error profile on a non-empty list returns the scored
\* postings in descending order of match_score, and postings with equal
\* match_score in the order they had in the input list.
C1_SortedStable ==
    \A k \in 1..Len(rets) :
        (NonErrorProfile /\ jobs0 # <<>>) =>
            /\ IsScoredCall(k)
            /\ \A i, j \in 1..Len(Returned(k)) :
                i < j =>
                    /\ ScoreOf(Returned(k)[i]) >= ScoreOf(Returned(k)[j])
                    /\ ScoreOf(Returned(k)[i]) = ScoreOf(Returned(k)[j])
                           => origin[Returned(k)[i]] < origin[Returned(k)[j]]

\* C1 happens: a returned list of three with a tie in it and with a posting
\* moved in front of one that preceded it in the input
C1_Witness ==
    \E k \in 1..Len(rets) :
        /\ IsScoredCall(k)
        /\ Len(Returned(k)) >= 3
        /\ \E i, j \in 1..Len(Returned(k)) :
            i < j /\ ScoreOf(Returned(k)[i]) = ScoreOf(Returned(k)[j])
        /\ \E i, j \in 1..Len(Returned(k)) :
            i < j /\ origin[Returned(k)[i]] > origin[Returned(k)[j]]

\* C2: the match_score of every scored posting is 6 per profile skill whose
\* rule matches the blob, plus 12 once if some profile title is in the posting
\* title, plus 4 if the seniority label is in the posting title, plus 3 per tag
\* matching a profile skill rule; it is never negative; the example scores 27.
C2_ScoreRubric ==
    \A k \in 1..Len(rets) :
        IsScoredCall(k) =>
            \A a \in Range(Returned(k)) :
                /\ ScoreOf(a) = ClaimScore(InputOf(a), resume_data)
                /\ ScoreOf(a) >= 0
                /\ (IsProfile(ProfileExample) /\ IsJob(InputOf(a), JobA1))
                       => ScoreOf(a) = 27

\* C2 happens: the example posting is scored against the example profile
C2_Witness ==
    \E k \in 1..Len(rets) :
        /\ IsScoredCall(k)
        /\ IsProfile(ProfileExample)
        /\ \E a \in Range(Returned(k)) :
            IsJob(InputOf(a), JobA1) /\ ScoreOf(a) = 27

\* C3: with an error profile, an empty profile or an empty posting list, every
\* call returns the input list itself, and the list and its dicts are as they
\* were handed over.
C3_PassThrough ==
    \A k \in 1..Len(rets) :
        ("error" \in DOMAIN resume_data \/ DOMAIN resume_data = {} \/ jobs0 = <<>>) =>
            /\ rets[k] = [t |-> "list", id |-> 1]
            /\ lists = <<InputList>>
            /\ heap = jobs0

\* C3 happens: a call with an error profile on a list that holds an entry with
\* an error key and a posting that carries the fields of an earlier ranking
C3_Witness ==
    /\ Len(rets) >= 1
    /\ "error" \in DOMAIN resume_data
    /\ \E i \in 1..NInput : "error" \in DOMAIN jobs0[i]
    /\ \E i \in 1..NInput : jobs0[i]["match_score"].v = 7

\* C4: a call with a non-error profile returns no posting that carries an error
\* key, and returns every posting without one, scored.
C4_ErrorEntriesDropped ==
    \A k \in 1..Len(rets) :
        (NonErrorProfile /\ jobs0 # <<>>) =>
            /\ IsScoredCall(k)
            /\ \A a \in Range(Returned(k)) :
                "error" \notin DOMAIN heap[a] /\ "error" \notin DOMAIN InputOf(a)
            /\ \A i \in 1..NInput :
                "error" \notin DOMAIN jobs0[i] =>
                    \E p \in 1..Len(Returned(k)) :
                        /\ origin[Returned(k)[p]] = i
                        /\ "matching_skills" \in DOMAIN heap[Returned(k)[p]]
                        /\ heap[Returned(k)[p]]["match_score"].t = "int"

\* C4 happens: a list with an error entry and other postings was ranked
C4_Witness ==
    \E k \in 1..Len(rets) :
        /\ IsScoredCall(k)
        /\ \E i \in 1..NInput : "error" \in DOMAIN jobs0[i]
        /\ Len(Returned(k)) >= 2

\* y is x with one more tag appended, a tag that matches a profile skill rule
AddsMatchingTag(x, y, rd) ==
    /\ DOMAIN x = DOMAIN y
    /\ "tags" \in DOMAIN x
    /\ \A f \in (DOMAIN x) \ {"tags"} : x[f] = y[f]
    /\ x.tags.t = "list" /\ y.tags.t = "list"
    /\ Len(y.tags.v) = Len(x.tags.v) + 1
    /\ SubSeq(y.tags.v, 1, Len(x.tags.v)) = x.tags.v
    /\ \E s \in user_skills(rd) : RuleMatches(s, y.tags.v[Len(y.tags.v)].v)

\* the profile skills whose rule matches the blob of y and not the blob of x
NewlyMatched(x, y, rd) ==
    {s \in user_skills(rd) : RuleMatches(s, ClaimBlob(y)) /\ ~RuleMatches(s, ClaimBlob(x))}

\* C5 as stated: appending a matching tag changes the score by exactly 3.
C5_ExactlyThree ==
    \A k \in 1..Len(rets) :
        IsScoredCall(k) =>
            \A a, b \in Range(Returned(k)) :
                AddsMatchingTag(InputOf(a), InputOf(b), resume_data)
                    => ScoreOf(b) = ScoreOf(a) + 3

\* C5 as amended: appending a matching tag never decreases the score; it raises
\* it by 3 for the tag and by 6 more for every profile skill whose rule matches
\* the blob only with the new tag in it.
C5_ThreePlusNewMatches ==
    \A k \in 1..Len(rets) :
        IsScoredCall(k) =>
            \A a, b \in Range(Returned(k)) :
                AddsMatchingTag(InputOf(a), InputOf(b), resume_data) =>
                    /\ ScoreOf(b) = ScoreOf(a) + 3
                           + 6 * Cardinality(NewlyMatched(InputOf(a), InputOf(b), resume_data))
                    /\ ScoreOf(b) >= ScoreOf(a) + 3

\* C5 happens: a posting and the same posting with one more matching tag are
\* ranked in one call, and the tag brings a new blob match with it
C5_Witness ==
    \E k \in 1..Len(rets) :
        /\ IsScoredCall(k)
        /\ \E a, b \in Range(Returned(k)) :
            /\ AddsMatchingTag(InputOf(a), InputOf(b), resume_data)
            /\ NewlyMatched(InputOf(a), InputOf(b), resume_data) # {}
            /\ ScoreOf(b) = ScoreOf(a) + 9

\* C6: a call with a non-error profile returns a list and raises nothing,
\* whatever postings the list holds, and the well-formed postings are ranked.
C6_NeverRaises ==
    \A k \in 1..Len(rets) :
        NonErrorProfile =>
            /\ rets[k].t = "list"
            /\ \A i \in 1..NInput :
                (~HasError(jobs0[i]) /\ ~JobRaises(jobs0[i]) /\ "tags" \in DOMAIN jobs0[i])
                    => \E a \in Range(Returned(k)) : origin[a] = i

\* C7: after calls with a non-error profile the input list holds the same dicts
\* in the same order, every input dict is as it was handed over, and the
\* returned list holds dicts of its own.
C7_InputsUnchanged ==
    (Len(rets) >= 1 /\ NonErrorProfile) =>
        /\ lists[1] = InputList
        /\ SubSeq(heap, 1, NInput) = jobs0
        /\ \A k \in 1..Len(rets) :
            IsScoredCall(k) => \A a \in Range(Returned(k)) : a > NInput

\* C7 happens: a returned copy carries a score its input posting does not
C7_Witness ==
    \E k \in 1..Len(rets) :
        /\ IsScoredCall(k)
        /\ \E a \in Range(Returned(k)) :
            /\ ScoreOf(a) # jobs0[origin[a]]["match_score"].v
            /\ SkillsOf(a) # jobs0[origin[a]]["matching_skills"].v

\* C8: any two calls on the same postings and profile end the same way and
\* return the same postings in the same order with the same match_score and
\* matching_skills.
C8_Deterministic ==
    \A k1, k2 \in 1..Len(rets) :
        /\ rets[k1].t = rets[k2].t
        /\ (rets[k1].t = "list" /\ rets[k2].t = "list") =>
            /\ Len(Returned(k1)) = Len(Returned(k2))
            /\ \A p \in 1..Len(Returned(k1)) :
                /\ origin[Returned(k1)[p]] = origin[Returned(k2)[p]]
                /\ ScoreOf(Returned(k1)[p]) = ScoreOf(Returned(k2)[p])
                /\ SkillsOf(Returned(k1)[p]) = SkillsOf(Returned(k2)[p])

\* C8 happens: two scoring calls, on several postings, with a profile whose
\* titles can be iterated in more than one order
C8_Witness ==
    /\ Len(rets) >= 2
    /\ IsScoredCall(1) /\ IsScoredCall(2)
    /\ Len(Returned(1)) >= 2
    /\ Cardinality(user_titles(resume_data)) >= 2

(***************************************************************************)
(* The claims about _extract_experience_years_traced.                      *)
(***************************************************************************)
ExplicitMethods == {"explicit_phrase_1", "explicit_phrase_2", "explicit_phrase_3"}

\* what each phrasing finds in the lower-cased text of the document
Found1 == PhraseSearch("explicit_phrase_1", LowerStr(Text(doc)))
Found2 == PhraseSearch("explicit_phrase_2", LowerStr(Text(doc)))
Found3 == PhraseSearch("explicit_phrase_3", LowerStr(Text(doc)))

TxtFivePlusYearsExperience == <<"5","+"," ","y","e","a","r","s"," ","e","x","p","e","r","i","e","n","c","e">>
TxtYears2015_2015_2020 == <<" ","2","0","1","5"," ","2","0","1","5","-","2","0","2","0">>

\* C9: the first of explicit_phrase_1, explicit_phrase_2, explicit_phrase_3
\* that matches anywhere in the text gives the result and the method, wherever
\* the other phrasings and the 4-digit years stand; the fallback is not applied
\* when a phrasing matches; "5+ years experience" gives 5 by explicit_phrase_2.
C9_FirstPhrasingWins ==
    exp.t = "result" =>
        LET f1 == Found1
            f2 == Found2
            f3 == Found3
        IN  /\ f1.found =>
                exp.method = "explicit_phrase_1" /\ exp.result = f1.group1
            /\ (~f1.found /\ f2.found) =>
                exp.method = "explicit_phrase_2" /\ exp.result = f2.group1
            /\ (~f1.found /\ ~f2.found /\ f3.found) =>
                exp.method = "explicit_phrase_3" /\ exp.result = f3.group1
            /\ (f1.found \/ f2.found \/ f3.found) =>
                exp.method \in ExplicitMethods
            /\ Text(doc) = TxtFivePlusYearsExperience =>
                exp.result = 5 /\ exp.method = "explicit_phrase_2"

\* C9 happens: the second phrasing opens the text, the first one stands later
\* in it with another number, and the first phrasing wins
C9_Witness ==
    /\ exp.t = "result"
    /\ Found1.found /\ Found2.found
    /\ Found1.group1 # Found2.group1
    /\ Phrase2At(LowerStr(Text(doc)), 1).found
    /\ ~Phrase1At(LowerStr(Text(doc)), 1).found
    /\ exp.method = "explicit_phrase_1"
    /\ exp.result = Found1.group1

\* the numbers that stand in the text as a word of exactly 4 digits
FourDigitWords(s) ==
    {ParseInt(SubSeq(s, i, i + 3)) :
        i \in {j \in 1..(Len(s) - 3) :
                  /\ \A k \in 0..3 : s[j + k] \in Digits
                  /\ CharAt(s, j - 1) \notin WordChars
                  /\ CharAt(s, j + 4) \notin WordChars}}

\* the years of 1980..2029 among them
YearsInText(s) == FourDigitWords(s) \cap (1980..2029)

SetMax(S) == CHOOSE x \in S : \A y \in S : y <= x
SetMin(S) == CHOOSE x \in S : \A y \in S : x <= y

\* C10: when no explicit phrasing matches, two or more distinct years of
\* 1980..2029 in the text give maximum minus minimum by year_span_fallback,
\* fewer give 0 by not_detected; years 2015, 2015, 2020 give 5; the result is
\* never negative.
C10_YearSpanFallback ==
    exp.t = "result" =>
        /\ exp.result \in Nat
        /\ (~Found1.found /\ ~Found2.found /\ ~Found3.found) =>
            LET Y == YearsInText(Text(doc)) IN
            /\ Cardinality(Y) >= 2 =>
                /\ exp.method = "year_span_fallback"
                /\ exp.result = SetMax(Y) - SetMin(Y)
            /\ Cardinality(Y) < 2 =>
                exp.method = "not_detected" /\ exp.result = 0
            /\ Text(doc) = TxtYears2015_2015_2020 =>
                exp.result = 5 /\ exp.method = "year_span_fallback"

\* C10 happens: a text with the years 2015, 2015, 2020 and no explicit phrasing
C10_Witness ==
    /\ exp.t = "result"
    /\ Text(doc) = TxtYears2015_2015_2020
    /\ exp.result = 5
    /\ exp.method = "year_span_fallback"

(***************************************************************************)
(* The claims about _extract_seniority_traced.                             *)
(***************************************************************************)
\* a number stands in s directly before "year", with at most a "+" and white
\* space between them
HasYearsPhrase(s) ==
    \E i \in 1..Len(s) :
        /\ s[i] \in Digits
        /\ LitAtI(s, SkipSpaces(s, OptChar(s, i + 1, "+")), <<"y","e","a","r">>)

\* C11: a text with no number of years in it and no 4-digit word gives
\* experience_years 0 by not_detected and seniority entry.
C11_NothingDetected ==
    (/\ exp.t = "result" /\ sen.t = "result"
     /\ ~HasYearsPhrase(SenText(doc))
     /\ FourDigitWords(SenText(doc)) = {}) =>
            /\ exp.result = 0
            /\ exp.method = "not_detected"
            /\ sen.level = "entry"

\* C11 happens: both extractions ran on " many years experience"
C11_Witness ==
    /\ exp.t = "result" /\ sen.t = "result"
    /\ doc = <<6, 7>>
    /\ ~HasYearsPhrase(SenText(doc)) /\ FourDigitWords(SenText(doc)) = {}
    /\ exp.method = "not_detected"
    /\ sen.level = "entry"

\* the numbers of years s mentions: the numbers that stand as a word or at the
\* end of one no word character precedes, followed by "year" or "years" as a
\* word, with at most a "+" and white space between them
YearsCounts(s) ==
    {ParseInt(SubSeq(s, i, SkipDigits(s, i) - 1)) :
        i \in {j \in 1..Len(s) :
                  /\ s[j] \in Digits
                  /\ ~IsWord(CharAt(s, j - 1))
                  /\ LET y == SkipSpaces(s, OptChar(s, SkipDigits(s, j), "+"))
                         e == OptChar(s, y + 4, "s")
                     IN  LitAtI(s, y, <<"y","e","a","r">>) /\ ~IsWord(CharAt(s, e))}}

\* the label of the first range, from the highest down, that some number of
\* years of s lies in
LabelOf(s) ==
    LET ys == YearsCounts(s) IN
    IF \E n \in ys : n \in 10..99 THEN "senior"
    ELSE IF \E n \in ys : n \in 5..9 THEN "mid-senior"
    ELSE IF \E n \in ys : n \in 3..4 THEN "mid"
    ELSE IF \E n \in ys : n \in 1..2 THEN "junior"
    ELSE "entry"

SeniorityLabels == {"entry", "junior", "mid", "mid-senior", "senior"}

HasToken(s, word) ==
    \E i \in 1..Len(s) :
        /\ LitAtI(s, i, word)
        /\ ~IsWord(CharAt(s, i - 1))
        /\ ~IsWord(CharAt(s, i + Len(word)))

TokJava == <<"j","a","v","a">>
TokJavascript == <<"j","a","v","a","s","c","r","i","p","t">>

\* C13 as stated: whenever the text holds the token "javascript", the skill
\* javascript is reported and the skill java is not.
C13_JavaNeverWithJavascript ==
    (hits.t = "result" /\ HasToken(SkillText(doc), TokJavascript)) =>
        /\ "javascript" \in Range(hits.v)
        /\ "java" \notin Range(hits.v)

\* C13 amended: whenever the text holds the token "javascript", the skill
\* javascript is reported, and the skill java is reported exactly when the
\* text also holds "java" as a token of its own.
C13_JavaOnlyAsOwnToken ==
    (hits.t = "result" /\ HasToken(SkillText(doc), TokJavascript)) =>
        /\ "javascript" \in Range(hits.v)
        /\ "java" \in Range(hits.v) <=> HasToken(SkillText(doc), TokJava)

\* C13 happens: "JavaScript" alone reports javascript and not java, and in
\* this state the text is "Java" and "script" put together
C13_Witness ==
    /\ hits.t = "result"
    /\ doc = <<2, 4>>
    /\ HasToken(SkillText(doc), TokJavascript)
    /\ hits.v = <<"javascript">>

(***************************************************************************)
(* The claims about search_jobs_all_sources and find_jobs_for_resume.      *)
(***************************************************************************)
AdapterOps == <<"adzuna", "remotive", "jobicy", "usajobs">>

\* the adapter calls made so far, in the order they were made
AdapterLog == SelectSeq(log, LAMBDA e : e.op \in Range(AdapterOps))

\* what the calls returned, one list after the other
RECURSIVE Concat(_)
Concat(entries) ==
    IF entries = <<>> THEN <<>>
    ELSE Head(entries).result \o Concat(Tail(entries))

\* the postings of the list search_jobs_all_sources builds
RawJobs == [i \in 1..Len(lists[1]) |-> heap[lists[1][i]]]

\* C14: the adapters are called in the order Adzuna, Remotive, Jobicy,
\* USAJobs; the list built is what they returned, put one after the other,
\* nothing dropped, repeated or moved; an adapter that fails adds the empty
\* list, and no failure ends the search.
C14_ConcatenationInOrder ==
    /\ pc # "raised"
    /\ [i \in 1..Len(AdapterLog) |-> AdapterLog[i].op]
           = SubSeq(AdapterOps, 1, Len(AdapterLog))
    /\ \A i \in 1..Len(AdapterLog) :
           AdapterLog[i].failed => AdapterLog[i].result = <<>>
    /\ pc \in {"rank", "done"} /\ "error" \notin DOMAIN resume_data
           => Len(AdapterLog) = 4
    /\ pc # "done" => RawJobs = Concat(AdapterLog)
    /\ pc = "done" => jobs0 = Concat(AdapterLog)

\* C14 happens: Adzuna failed, Remotive and Jobicy each returned a posting,
\* different ones, and the search went on to its end
C14_Witness ==
    /\ pc = "rank"
    /\ Len(AdapterLog) = 4
    /\ AdapterLog[1].failed
    /\ Len(AdapterLog[2].result) = 1
    /\ Len(AdapterLog[3].result) = 1
    /\ AdapterLog[2].result[1].title # AdapterLog[3].result[1].title
    /\ Len(RawJobs) = 2
    /\ RawJobs[1].source.v = SrcRemotive
    /\ RawJobs[2].source.v = SrcJobicy

\* C15: when the extraction returns an error, find_jobs_for_resume is done:
\* it called no adapter and no ranking, it returned the message with the
\* error; and the extraction is never attempted twice.
C15_ErrorStopsPipeline ==
    /\ Cardinality({i \in 1..Len(log) : log[i].op = "extract"}) <= 1
    /\ "error" \in DOMAIN resume_data =>
        /\ pc = "done"
        /\ Len(log) = 1 /\ log[1].op = "extract"
        /\ rets = <<>>
        /\ RawJobs = <<>>
        /\ out.t = "message"
        /\ out.v = <<"!", " ", " ">> \o resume_data.error.v

\* C15 happens: the resume file was not found and the pipeline is done
C15_Witness ==
    /\ pc = "done"
    /\ "error" \in DOMAIN resume_data
    /\ resume_data.error.v = ErrFileNotFound
    /\ out.t = "message"
    /\ Len(log) = 1

(***************************************************************************)
(* The claims about _extract_education.                                    *)
(***************************************************************************)
\* the lines of the document, as the text has them
DocLines == [i \in 1..Len(doc) |-> EduLines[doc[i]]]

\* line holds some education keyword, whatever the case of its letters
HoldsKeyword(line) ==
    \E k \in 1..Len(EDUCATION_KEYWORDS) : SubstringCI(EDUCATION_KEYWORDS[k], line)

\* the characters of line that are not white space
InkCount(line) == Cardinality({i \in 1..Len(line) : line[i] \notin SpaceChars})

\* the length of line without the white space at its two ends
TrimmedLen(line) ==
    LET ink == {i \in 1..Len(line) : line[i] \notin SpaceChars} IN
    IF ink = {} THEN 0 ELSE SetMax(ink) - SetMin(ink) + 1

\* the positions of the document lines that hold a keyword and have more than
\* 5 characters by the count given
QualifyingByInk == {i \in 1..Len(doc) : HoldsKeyword(DocLines[i]) /\ InkCount(DocLines[i]) > 5}
QualifyingByLen == {i \in 1..Len(doc) : HoldsKeyword(DocLines[i]) /\ TrimmedLen(DocLines[i]) > 5}

\* res is the lines at the first 5 positions of Q, in document order, each
\* without the white space at its ends
IsFirstFiveOf(res, Q) ==
    /\ Len(res) = (IF Cardinality(Q) < 5 THEN Cardinality(Q) ELSE 5)
    /\ \A n \in 1..Len(res) :
        \E i \in Q :
            /\ Cardinality({j \in Q : j < i}) = n - 1
            /\ res[n] = Strip(DocLines[i])

\* C16 as stated: the education lines are the first 5 lines, at most, that
\* hold a keyword and have more than 5 characters that are not white space.
C16_FirstFiveByInk ==
    edu.t = "result" => IsFirstFiveOf(edu.v, QualifyingByInk)

\* C16 amended: the education lines are the first 5 lines, at most, in
\* document order, that hold a keyword and are longer than 5 characters once
\* the white space at their ends is removed, the white space inside them
\* counted.
C16_FirstFiveByLen ==
    edu.t = "result" =>
        /\ Len(edu.v) <= 5
        /\ IsFirstFiveOf(edu.v, QualifyingByLen)

\* C16 happens: a document of six qualifying lines, not all the same, of
\* which the first five are returned
C16_Witness ==
    /\ edu.t = "result"
    /\ Cardinality(QualifyingByLen) = 6
    /\ Len(edu.v) = 5
    /\ \E i, j \in QualifyingByLen : doc[i] # doc[j]

(***************************************************************************)
(* The claims about matching_skills and about what a ranking returns.      *)
(***************************************************************************)
\* the position of the skill c in SKILLS
SkillIndex(c) == CHOOSE k \in 1..Len(SKILLS) : SKILLS[k] = c

\* the skills the profile lists
ListedSkills(rd) == Range(DictGetDefault(rd, "skills", PyList(<<>>)).v)

\* the profile with the skills SKILLS does not know taken out of its list
KnownOnly(rd) ==
    [rd EXCEPT !.skills = PyList(SelectSeq(rd.skills.v, LAMBDA c : c \in Range(SKILLS)))]

\* C17: matching_skills of a scored posting holds exactly the listed skills
\* whose rule matches the blob, each once, in the order of SKILLS, whatever the
\* order of the profile's list; a listed skill SKILLS does not know is never in
\* it and changes no score.
C17_MatchingSkills ==
    \A k \in 1..Len(rets) :
        IsScoredCall(k) =>
            \A a \in Range(Returned(k)) :
                LET ms == SkillsOf(a) IN
                /\ Range(ms) = {c \in ListedSkills(resume_data) \cap Range(SKILLS) :
                                   RuleMatches(c, ClaimBlob(InputOf(a)))}
                /\ \A i, j \in 1..Len(ms) :
                       i < j => SkillIndex(ms[i]) < SkillIndex(ms[j])
                /\ Range(ms) \subseteq Range(SKILLS)
                /\ ScoreOf(a) = ClaimScore(InputOf(a), KnownOnly(resume_data))

\* C17 happens: the profile lists react, cobol, javascript, python, react, and
\* a posting is returned with javascript and react, another with python and
\* react, in that order
C17_Witness ==
    \E k \in 1..Len(rets) :
        /\ IsScoredCall(k)
        /\ IsProfile(ProfileShuffled)
        /\ \E a, b \in Range(Returned(k)) :
            /\ SkillsOf(a) = <<"javascript", "react">>
            /\ SkillsOf(b) = <<"python", "react">>

\* the fields the ranking sets
RankFields == {"match_score", "matching_skills"}

\* the positions of the input list whose posting carries no error key
Rankable == {i \in 1..NInput : "error" \notin DOMAIN jobs0[i]}

\* C18: with a non-error profile, the list a call returns holds every input
\* posting without an error key exactly once and nothing else, and every
\* returned posting has the fields of its input posting, with their values,
\* but for match_score and matching_skills.
C18_PermutationOfRankable ==
    \A k \in 1..Len(rets) :
        NonErrorProfile =>
            /\ rets[k].t = "list"
            /\ Len(Returned(k)) = Cardinality(Rankable)
            /\ \A i \in Rankable :
                   Cardinality({p \in 1..Len(Returned(k)) :
                                   origin[Returned(k)[p]] = i}) = 1
            /\ \A a \in Range(Returned(k)) :
                /\ origin[a] \in Rankable
                /\ (DOMAIN heap[a]) \ RankFields = (DOMAIN InputOf(a)) \ RankFields
                /\ \A f \in (DOMAIN heap[a]) \ RankFields : heap[a][f] = InputOf(a)[f]

\* C18 happens: a list of three with an error entry and the same posting
\* twice was ranked, and the two come back
C18_Witness ==
    \E k \in 1..Len(rets) :
        /\ IsScoredCall(k)
        /\ NInput = 3
        /\ Cardinality(Rankable) = 2
        /\ \E i, j \in Rankable : i < j /\ IsJob(jobs0[i], jobs0[j])
        /\ Len(Returned(k)) = 2

====
